---- MODULE Spec2Model ----
(***************************************************************************)
(* Stats-logger output registration and per-thread dispatch                *)
(* (src/src/alert-syslog.h, "Stats Logger Output registration functions")  *)
(* together with the syslog alert module it dispatches to                  *)
(* (src/src/alert-syslog.c).                                               *)
(*                                                                         *)
(* The logger registry `list` is a singly linked chain that is only ever    *)
(* appended at its tail and walked from its head; it is modelled as a       *)
(* sequence, a cursor `logger` being an index (logger == NULL is            *)
(* i > Len(list)).  The per-thread store chain is modelled as a heap of     *)
(* nodes with explicit next pointers, because the code keeps pointers to    *)
(* nodes it has freed.  Every SCMalloc is a fresh heap object, or NULL      *)
(* when the allocation oracle of the call says so.                          *)
(***************************************************************************)
EXTENDS Integers, Sequences, FiniteSets, TLC

\* longest registry the model builds
MaxLoggers == 2

NULL == 0

Threads == {"W1", "W2"}

\* the records dispatched (StatsTable *st)
Records == {"st1", "st2"}

TM_ECODE_OK == "TM_ECODE_OK"
TM_ECODE_FAILED == "TM_ECODE_FAILED"
\* BUG_ON(...) fired: abort()
ABORTED == "abort"
\* exit(EXIT_FAILURE)
EXITED == "exit"

(***************************************************************************)
(* The module table (tmm_modules).  "AlertSyslog" is the module registered  *)
(* by TmModuleAlertSyslogRegister: all three lifecycle callables are set.   *)
(* "NoInit" is a module whose ThreadInit is NULL.  A callable that is not   *)
(* set is "".                                                               *)
(***************************************************************************)
AlertSyslogModule ==
    [ name                 |-> "AlertSyslog",
      id                   |-> 1,
      ThreadInit           |-> "AlertSyslogThreadInit",
      ThreadExitPrintStats |-> "AlertSyslogExitPrintStats",
      ThreadDeinit         |-> "AlertSyslogThreadDeinit" ]

NoInitModule ==
    [ name                 |-> "NoInit",
      id                   |-> 2,
      ThreadInit           |-> "",
      ThreadExitPrintStats |-> "NoInitExitPrintStats",
      ThreadDeinit         |-> "NoInitThreadDeinit" ]

\* the module table as the modules' register functions fill it at startup
tmm_modules == { AlertSyslogModule, NoInitModule }

VARIABLES
    list,    \* static OutputStatsLogger *list: the logger registry
    nodes,   \* heap of OutputLoggerThreadStore objects
    ctxs,    \* heap of the thread contexts the modules' ThreadInit allocated
    data,    \* per thread: *data, the OutputLoggerThreadData of the thread
    phase,   \* per thread: where the thread framework is in its lifecycle
    proc,    \* "running", or how the process ended (abort / exit)
    shut,    \* OutputStatsShutdown has been called
    last,    \* the last call made into the module: arguments, callbacks, result
    modtab,  \* the module table: the modules TmModuleGetByName finds
    octx,    \* per output context: how often it has been released (DeInit)
    alerts,    \* file_ctx->alerts of the output context the threads share
    fp_mutex,  \* file_ctx->fp_mutex: the thread that holds it, or ""
    pc,        \* per thread: where it is inside a syslog record function
    cur,       \* per thread: the running call: the function called, the record
               \* function it runs, the packet, i, the value of alerts it has
               \* read, what it has added to alerts, its return value
    ncalls,    \* per thread: calls of a syslog function made so far
    total      \* per thread: alerts.cnt summed over the packets it has handed
               \* to a record function


\* a module is "no module" (NULL) when its name is ""
NoModule ==
    [ name |-> "", id |-> -1, ThreadInit |-> "",
      ThreadExitPrintStats |-> "", ThreadDeinit |-> "" ]

TmModuleGetByName(name) ==
    IF \E m \in modtab : m.name = name
    THEN CHOOSE m \in modtab : m.name = name
    ELSE NoModule

TmModuleGetIdByName(name) == TmModuleGetByName(name).id

(***************************************************************************)
(* What the configuration may register: (name, LogFunc, output_ctx).        *)
(* output_ctx NULL is a backend without an output context; "Unknown" is a   *)
(* name the module table does not hold.                                     *)
(***************************************************************************)
Backends ==
    { [name |-> "AlertSyslog", LogFunc |-> "LogA", output_ctx |-> 1],
      [name |-> "AlertSyslog", LogFunc |-> "LogB", output_ctx |-> 2],
      [name |-> "AlertSyslog", LogFunc |-> "LogA", output_ctx |-> NULL],
      [name |-> "NoInit",      LogFunc |-> "LogC", output_ctx |-> 1],
      [name |-> "Unknown",     LogFunc |-> "LogA", output_ctx |-> 1] }

\* the output contexts (OutputCtx) the backends are registered with
OutputCtxs == {b.output_ctx : b \in Backends} \ {NULL}

dvars == <<list, nodes, ctxs, data, phase, proc, shut, last, modtab, octx>>
svars == <<alerts, fp_mutex, pc, cur, ncalls, total>>
vars == <<dvars, svars>>

\* the part of the state the handlers read and write
Mem == [list |-> list, nodes |-> nodes, ctxs |-> ctxs, data |-> data,
        octx |-> octx]

NoData == [set |-> FALSE, store |-> NULL]

NoCall ==
    [op |-> "", tv |-> "", ret |-> "", calls |-> <<>>,
     name |-> "", LogFunc |-> "", output_ctx |-> NULL, st |-> ""]

(***************************************************************************)
(* OutputRegisterStatsLogger                                                *)
(***************************************************************************)
\* RegisterAppend with registrations deduplicated by name
RegisterAppend_Dedup(l, op) ==
    IF \E i \in 1 .. Len(l) : l[i].name = op.name THEN l ELSE Append(l, op)

\* the tail append of lines 105-112
RegisterAppend(l, op) == Append(l, op)

\* OutputRegisterStatsLogger without the check of lines 92-93
OutputRegisterStatsLogger_NoCheck(M, name, LogFunc, output_ctx, mallocOk) ==
    LET module_id == TmModuleGetIdByName(name) IN
    IF ~mallocOk THEN [m |-> M, ret |-> -1]
    ELSE [m |-> [M EXCEPT !.list = RegisterAppend(M.list,
                    [LogFunc |-> LogFunc, output_ctx |-> output_ctx,
                     name |-> name, module_id |-> module_id])],
          ret |-> 0]

\* mallocOk: SCMalloc(sizeof(*op)) returned non-NULL
OutputRegisterStatsLogger(M, name, LogFunc, output_ctx, mallocOk) ==
    LET module_id == TmModuleGetIdByName(name) IN
    IF module_id < 0 THEN [m |-> M, ret |-> -1]
    ELSE IF ~mallocOk THEN [m |-> M, ret |-> -1]
    ELSE [m |-> [M EXCEPT !.list = RegisterAppend(M.list,
                    [LogFunc |-> LogFunc, output_ctx |-> output_ctx,
                     name |-> name, module_id |-> module_id])],
          ret |-> 0]

(***************************************************************************)
(* The modules' lifecycle callables (alert-syslog.c)                        *)
(***************************************************************************)
\* The output contexts as AlertSyslogInitCtx makes them (lines 111-152): each
\* has a LogFileCtx of its own (LogFileNewCtx, line 124) in its data field.
\* The LogFileCtx objects are numbered after the output contexts.
OutputCtxHeap ==
    [c \in OutputCtxs |-> [data |-> Cardinality(OutputCtxs) + c]]

\* AlertSyslogThreadInit that keeps the context it allocated when initdata
\* is NULL
AlertSyslogThreadInit_Leak(M, tv, by, initdata, prior, mallocOk) ==
    IF ~mallocOk THEN [m |-> M, ret |-> TM_ECODE_FAILED, retptr |-> prior]
    ELSE
        LET ast == Len(M.ctxs) + 1 IN
        IF initdata = NULL
        THEN [m |-> [M EXCEPT !.ctxs = Append(@,
                        [file_ctx |-> NULL, tv |-> tv, by |-> by, frees |-> 0])],
              ret |-> TM_ECODE_FAILED, retptr |-> prior]
        ELSE [m |-> [M EXCEPT !.ctxs = Append(@,
                        [file_ctx |-> OutputCtxHeap[initdata].data, tv |-> tv,
                         by |-> by, frees |-> 0])],
              ret |-> TM_ECODE_OK, retptr |-> ast]

\* AlertSyslogThreadInit(t, initdata, data); prior: the value of *data at the
\* call, retptr: its value at the return; mallocOk: SCMalloc gave memory.
\* by: the registry position the caller walks, kept with the context so that
\* the origin of a context can be told later.
AlertSyslogThreadInit(M, tv, by, initdata, prior, mallocOk) ==
    IF ~mallocOk THEN [m |-> M, ret |-> TM_ECODE_FAILED, retptr |-> prior]
    ELSE
        LET ast == Len(M.ctxs) + 1 IN
        IF initdata = NULL
        THEN \* SCFree(ast)
             [m |-> [M EXCEPT !.ctxs = Append(@,
                        [file_ctx |-> NULL, tv |-> tv, by |-> by, frees |-> 1])],
              ret |-> TM_ECODE_FAILED, retptr |-> prior]
        ELSE \* ast->file_ctx = ((OutputCtx *)initdata)->data; *data = ast
             [m |-> [M EXCEPT !.ctxs = Append(@,
                        [file_ctx |-> OutputCtxHeap[initdata].data, tv |-> tv,
                         by |-> by, frees |-> 0])],
              ret |-> TM_ECODE_OK, retptr |-> ast]

\* AlertSyslogThreadDeinit(t, data)
AlertSyslogThreadDeinit(M, ast) ==
    IF ast = NULL THEN M
    ELSE [M EXCEPT !.ctxs[ast].frees = @ + 1]

\* tm_module->ThreadInit(tv, initdata, &retptr)
CallThreadInit(fn, M, tv, by, initdata, prior, mallocOk) ==
    IF fn = "AlertSyslogThreadInit"
    THEN AlertSyslogThreadInit(M, tv, by, initdata, prior, mallocOk)
    ELSE [m |-> M, ret |-> TM_ECODE_FAILED, retptr |-> prior]

\* tm_module->ThreadDeinit(tv, thread_data)
CallThreadDeinit(fn, M, thread_data) ==
    IF fn = "AlertSyslogThreadDeinit"
    THEN AlertSyslogThreadDeinit(M, thread_data)
    ELSE M

(***************************************************************************)
(* OutputStatsLogThreadInit                                                 *)
(***************************************************************************)
RECURSIVE StoreTail(_, _)
\* lines 185-187: tmp = td->store; while (tmp->next != NULL) tmp = tmp->next
StoreTail(nds, tmp) ==
    IF nds[tmp].next = NULL THEN tmp ELSE StoreTail(nds, nds[tmp].next)

\* StoreAppend on a store head that is one static variable for all threads
StoreAppend_Shared(M, tv, retptr) ==
    LET ts == Len(M.nodes) + 1
        nds == Append(M.nodes,
                 [thread_data |-> retptr, next |-> NULL, frees |-> 0, tv |-> tv])
        heads == {M.data[u].store : u \in Threads} \ {NULL}
    IN  IF heads = {}
        THEN [M EXCEPT !.nodes = nds, !.data[tv].store = ts]
        ELSE LET head == CHOOSE h \in heads : TRUE IN
             [M EXCEPT !.nodes = [nds EXCEPT ![StoreTail(nds, head)].next = ts],
                       !.data[tv].store = head]

\* lines 175-189: a new store node holding retptr, linked at the tail of
\* td->store
StoreAppend(M, tv, retptr) ==
    LET ts == Len(M.nodes) + 1
        nds == Append(M.nodes,
                 [thread_data |-> retptr, next |-> NULL, frees |-> 0, tv |-> tv])
    IN  IF M.data[tv].store = NULL
        THEN [M EXCEPT !.nodes = nds, !.data[tv].store = ts]
        ELSE [M EXCEPT !.nodes =
                 [nds EXCEPT ![StoreTail(nds, M.data[tv].store)].next = ts]]

RECURSIVE ThreadInitLoop_Skip(_, _, _, _, _, _)
\* ThreadInitLoop that skips a logger whose module is not found
ThreadInitLoop_Skip(M, tv, logger, k, oracle, calls) ==
    IF logger > Len(M.list)
    THEN [m |-> M, ret |-> TM_ECODE_OK, calls |-> calls]
    ELSE
        LET tm_module == TmModuleGetByName(M.list[logger].name) IN
        IF tm_module.ThreadInit = ""
        THEN ThreadInitLoop_Skip(M, tv, logger + 1, k, oracle, calls)
        ELSE
            LET r == CallThreadInit(tm_module.ThreadInit, M, tv, logger,
                                    M.list[logger].output_ctx, NULL,
                                    oracle[k + 1])
                done == Append(calls, [fn |-> tm_module.ThreadInit,
                                       initdata |-> M.list[logger].output_ctx,
                                       arg |-> r.retptr, st |-> r.ret])
            IN  IF r.ret = TM_ECODE_OK
                THEN IF ~oracle[k + 2]
                     THEN [m |-> r.m, ret |-> ABORTED, calls |-> done]
                     ELSE ThreadInitLoop_Skip(StoreAppend(r.m, tv, r.retptr),
                                              tv, logger + 1, k + 2, oracle, done)
                ELSE ThreadInitLoop_Skip(r.m, tv, logger + 1, k + 1, oracle, done)

RECURSIVE ThreadInitLoop(_, _, _, _, _, _)
\* lines 164-197: the walk over the registry.  logger: the cursor; k: the
\* number of SCMalloc calls made so far; oracle[j]: the j-th SCMalloc of this
\* call gave memory; calls: the modules' ThreadInit calls made so far, each
\* with the output context it was given, the value of retptr after it
\* (void *retptr = NULL before it, line 173) and its return code.
ThreadInitLoop(M, tv, logger, k, oracle, calls) ==
    IF logger > Len(M.list)
    THEN [m |-> M, ret |-> TM_ECODE_OK, calls |-> calls]
    ELSE
        LET tm_module == TmModuleGetByName(M.list[logger].name) IN
        IF tm_module.name = "" THEN [m |-> M, ret |-> EXITED, calls |-> calls]
        ELSE IF tm_module.ThreadInit = ""
        THEN ThreadInitLoop(M, tv, logger + 1, k, oracle, calls)
        ELSE
            LET r == CallThreadInit(tm_module.ThreadInit, M, tv, logger,
                                    M.list[logger].output_ctx, NULL,
                                    oracle[k + 1])
                done == Append(calls, [fn |-> tm_module.ThreadInit,
                                       initdata |-> M.list[logger].output_ctx,
                                       arg |-> r.retptr, st |-> r.ret])
            IN  IF r.ret = TM_ECODE_OK
                THEN IF ~oracle[k + 2]
                     THEN [m |-> r.m, ret |-> ABORTED, calls |-> done]
                     ELSE ThreadInitLoop(StoreAppend(r.m, tv, r.retptr), tv,
                                         logger + 1, k + 2, oracle, done)
                ELSE ThreadInitLoop(r.m, tv, logger + 1, k + 1, oracle, done)

OutputStatsLogThreadInit(M, tv, oracle) ==
    IF ~oracle[1] THEN [m |-> M, ret |-> TM_ECODE_FAILED, calls |-> <<>>]
    ELSE ThreadInitLoop([M EXCEPT !.data[tv] = [set |-> TRUE, store |-> NULL]],
                        tv, 1, 1, oracle, <<>>)

(***************************************************************************)
(* OutputStatsLog                                                           *)
(***************************************************************************)
\* Mismatch with the BUG_ONs compiled out
Mismatch_Never(M, logger, store) == FALSE

\* the two BUG_ONs on a chain that ended before the other one
Mismatch(M, logger, store) ==
    \/ logger > Len(M.list) /\ store # NULL
    \/ logger <= Len(M.list) /\ store = NULL

RECURSIVE LogLoop(_, _, _, _, _)
\* lines 133-143
LogLoop(M, logger, store, st, calls) ==
    IF logger <= Len(M.list) /\ store # NULL
    THEN IF M.list[logger].LogFunc = ""
         THEN [m |-> M, ret |-> ABORTED, calls |-> calls]
         ELSE
            LET done == Append(calls, [fn |-> M.list[logger].LogFunc,
                                       arg |-> M.nodes[store].thread_data,
                                       st |-> st])
                nlogger == logger + 1
                nstore == M.nodes[store].next
            IN  IF Mismatch(M, nlogger, nstore)
                THEN [m |-> M, ret |-> ABORTED, calls |-> done]
                ELSE LogLoop(M, nlogger, nstore, st, done)
    ELSE [m |-> M, ret |-> TM_ECODE_OK, calls |-> calls]

\* OutputStatsLog that returns at once when nothing is registered
OutputStatsLog_NoOp(M, tv, st) ==
    IF ~M.data[tv].set THEN [m |-> M, ret |-> ABORTED, calls |-> <<>>]
    ELSE IF M.list = <<>> THEN [m |-> M, ret |-> TM_ECODE_OK, calls |-> <<>>]
    ELSE IF Mismatch(M, 1, M.data[tv].store)
    THEN [m |-> M, ret |-> ABORTED, calls |-> <<>>]
    ELSE LogLoop(M, 1, M.data[tv].store, st, <<>>)

OutputStatsLog(M, tv, st) ==
    IF ~M.data[tv].set THEN [m |-> M, ret |-> ABORTED, calls |-> <<>>]
    ELSE IF M.list = <<>> THEN [m |-> M, ret |-> ABORTED, calls |-> <<>>]
    ELSE IF Mismatch(M, 1, M.data[tv].store)
    THEN [m |-> M, ret |-> ABORTED, calls |-> <<>>]
    ELSE IF 1 > Len(M.list) /\ M.data[tv].store = NULL
    THEN [m |-> M, ret |-> ABORTED, calls |-> <<>>]
    ELSE LogLoop(M, 1, M.data[tv].store, st, <<>>)

(***************************************************************************)
(* OutputStatsLogThreadDeinit                                               *)
(***************************************************************************)
\* FreeStore that leaves the node allocated
FreeStore_Leak(M, store) == M

\* SCFree(store)
FreeStore(M, store) == [M EXCEPT !.nodes[store].frees = @ + 1]

RECURSIVE DeinitLoop(_, _, _, _)
\* lines 209-225
DeinitLoop(M, logger, store, calls) ==
    IF logger <= Len(M.list) /\ store # NULL
    THEN LET tm_module == TmModuleGetByName(M.list[logger].name) IN
         IF tm_module.name = ""
         THEN [m |-> M, ret |-> EXITED, calls |-> calls]
         ELSE
            LET called == tm_module.ThreadDeinit # ""
                M1 == IF called
                      THEN CallThreadDeinit(tm_module.ThreadDeinit, M,
                                            M.nodes[store].thread_data)
                      ELSE M
                done == IF called
                        THEN Append(calls, [fn |-> tm_module.ThreadDeinit,
                                            arg |-> M.nodes[store].thread_data,
                                            st |-> ""])
                        ELSE calls
                next_store == M.nodes[store].next
            IN  DeinitLoop(FreeStore(M1, store), logger + 1, next_store, done)
    ELSE [m |-> M, ret |-> TM_ECODE_OK, calls |-> calls]

\* OutputStatsLogThreadDeinit that tears the registry down with the store
OutputStatsLogThreadDeinit_FreesList(M, tv) ==
    LET r == DeinitLoop(M, 1, M.data[tv].store, <<>>)
    IN  [r EXCEPT !.m.list = <<>>]

OutputStatsLogThreadDeinit(M, tv) ==
    DeinitLoop(M, 1, M.data[tv].store, <<>>)

(***************************************************************************)
(* OutputStatsLogExitPrintStats                                             *)
(***************************************************************************)
RECURSIVE ExitLoop(_, _, _, _)
\* lines 235-249
ExitLoop(M, logger, store, calls) ==
    IF logger <= Len(M.list) /\ store # NULL
    THEN LET tm_module == TmModuleGetByName(M.list[logger].name) IN
         IF tm_module.name = ""
         THEN [m |-> M, ret |-> EXITED, calls |-> calls]
         ELSE
            LET done == IF tm_module.ThreadExitPrintStats # ""
                        THEN Append(calls, [fn |-> tm_module.ThreadExitPrintStats,
                                            arg |-> M.nodes[store].thread_data,
                                            st |-> ""])
                        ELSE calls
            IN  ExitLoop(M, logger + 1, M.nodes[store].next, done)
    ELSE [m |-> M, ret |-> "", calls |-> calls]

\* OutputStatsLogExitPrintStats that walks the store the way thread-deinit does
OutputStatsLogExitPrintStats_Frees(M, tv) ==
    LET r == DeinitLoop(M, 1, M.data[tv].store, <<>>)
    IN  [r EXCEPT !.ret = ""]

OutputStatsLogExitPrintStats(M, tv) ==
    ExitLoop(M, 1, M.data[tv].store, <<>>)

(***************************************************************************)
(* OutputStatsShutdown                                                      *)
(***************************************************************************)
OutputStatsShutdown(M) == [M EXCEPT !.list = <<>>]

(***************************************************************************)
(* OutputStatsLoggersRegistered                                             *)
(***************************************************************************)
\* OutputStatsLoggersRegistered that tests the wrong way round
OutputStatsLoggersRegistered_Inverted(M) == IF M.list # <<>> THEN 0 ELSE 1

OutputStatsLoggersRegistered(M) == IF M.list # <<>> THEN 1 ELSE 0

(***************************************************************************)
(* The syslog record functions (alert-syslog.c)                             *)
(***************************************************************************)
\* calls of a syslog function each thread makes
MaxCalls == 2

\* most alerts on one packet (p->alerts.cnt)
MaxAlerts == 2

\* a packet, as far as the syslog functions look at it: PKT_IS_IPV4 /
\* PKT_IS_IPV6, p->alerts.cnt, p->events.cnt
Packets ==
    [ip : {"v4", "v6", "none"}, alerts_cnt : 0 .. MaxAlerts,
     events_cnt : 0 .. 1]

\* the functions a thread may be asked to run on a packet
SyslogFuncs ==
    {"AlertSyslog", "AlertSyslogIPv4", "AlertSyslogIPv6",
     "AlertSyslogDecoderEvent"}

\* AlertSyslog testing p->events.cnt before the kind of the packet
AlertSyslog_EventsFirst(p) ==
    IF p.events_cnt > 0 THEN "AlertSyslogDecoderEvent"
    ELSE IF p.ip = "v4" THEN "AlertSyslogIPv4"
    ELSE IF p.ip = "v6" THEN "AlertSyslogIPv6"
    ELSE ""

\* AlertSyslog: the record function it hands the packet to, "" for none
AlertSyslog(p) ==
    IF p.ip = "v4" THEN "AlertSyslogIPv4"
    ELSE IF p.ip = "v6" THEN "AlertSyslogIPv6"
    ELSE IF p.events_cnt > 0 THEN "AlertSyslogDecoderEvent"
    ELSE ""

\* the record function that runs when fn is called with p
RecordFunc(fn, p) == IF fn = "AlertSyslog" THEN AlertSyslog(p) ELSE fn

\* The packets a function is called with.  AlertSyslog takes every packet.
\* AlertSyslogIPv4 and AlertSyslogIPv6, which are also module functions of
\* their own (lines 86-103), read the IPv4 / IPv6 header of the packet (lines
\* 248-249, 298-299) and are handed packets of their kind only;
\* AlertSyslogDecoderEvent prints a packet that carries decoder events.
Callable(fn, p) ==
    \/ fn = "AlertSyslog"
    \/ fn = "AlertSyslogIPv4" /\ p.ip = "v4"
    \/ fn = "AlertSyslogIPv6" /\ p.ip = "v6"
    \/ fn = "AlertSyslogDecoderEvent" /\ p.ip = "none" /\ p.events_cnt > 0

NoPacket == [ip |-> "none", alerts_cnt |-> 0, events_cnt |-> 0]

\* no call is running on the thread
NoPacketCall ==
    [entry |-> "", fn |-> "", p |-> NoPacket, cnt |-> 0, i |-> 0, seen |-> 0,
     added |-> 0, ret |-> ""]

(***************************************************************************)
(* The state machine.  The callers are the configuration code (Register,    *)
(* during single-threaded startup), the thread framework (per worker:       *)
(* ThreadInit, then Log and ExitPrintStats, then ThreadDeinit) and the      *)
(* engine's exit path (Shutdown, when no worker is running any more).       *)
(***************************************************************************)
Init ==
    /\ list = <<>>
    /\ nodes = <<>>
    /\ ctxs = <<>>
    /\ data = [t \in Threads |-> NoData]
    /\ phase = [t \in Threads |-> "new"]
    /\ proc = "running"
    /\ shut = FALSE
    /\ last = NoCall
    /\ modtab = tmm_modules
    /\ octx = [c \in OutputCtxs |-> 0]
    /\ alerts = 0
    /\ fp_mutex = ""
    /\ pc = [t \in Threads |-> "idle"]
    /\ cur = [t \in Threads |-> NoPacketCall]
    /\ ncalls = [t \in Threads |-> 0]
    /\ total = [t \in Threads |-> 0]

\* how the process goes on after a call that returned ret
ProcAfter(ret) == IF ret \in {ABORTED, EXITED} THEN ret ELSE "running"

Store(r) ==
    /\ list' = r.m.list
    /\ nodes' = r.m.nodes
    /\ ctxs' = r.m.ctxs
    /\ data' = r.m.data
    /\ octx' = r.m.octx

Register ==
    /\ proc = "running"
    /\ ~shut
    /\ \A t \in Threads : phase[t] = "new"
    /\ \E b \in Backends, mallocOk \in BOOLEAN :
          LET r == OutputRegisterStatsLogger(Mem, b.name, b.LogFunc,
                                             b.output_ctx, mallocOk)
          IN  /\ Len(r.m.list) <= MaxLoggers
              /\ Store(r)
              /\ last' = [NoCall EXCEPT !.op = "OutputRegisterStatsLogger",
                            !.ret = IF r.ret = 0 THEN "0" ELSE "-1",
                            !.name = b.name, !.LogFunc = b.LogFunc,
                            !.output_ctx = b.output_ctx]
    /\ UNCHANGED <<phase, proc, shut, modtab>>
    /\ UNCHANGED svars

ThreadInit(tv) ==
    /\ proc = "running"
    /\ ~shut
    /\ phase[tv] = "new"
    /\ \E oracle \in [1 .. (1 + 2 * Len(list)) -> BOOLEAN] :
          LET r == OutputStatsLogThreadInit(Mem, tv, oracle)
          IN  /\ Store(r)
              /\ proc' = ProcAfter(r.ret)
              /\ phase' = [phase EXCEPT ![tv] =
                             IF r.ret = TM_ECODE_OK THEN "ready"
                             ELSE IF r.ret = TM_ECODE_FAILED THEN "failed"
                             ELSE @]
              /\ last' = [NoCall EXCEPT !.op = "OutputStatsLogThreadInit",
                            !.tv = tv, !.ret = r.ret, !.calls = r.calls]
    /\ UNCHANGED <<shut, modtab>>
    /\ UNCHANGED svars

Log(tv) ==
    /\ proc = "running"
    /\ phase[tv] = "ready"
    /\ \E st \in Records :
          LET r == OutputStatsLog(Mem, tv, st)
          IN  /\ Store(r)
              /\ proc' = ProcAfter(r.ret)
              /\ last' = [NoCall EXCEPT !.op = "OutputStatsLog", !.tv = tv,
                            !.ret = r.ret, !.calls = r.calls, !.st = st]
    /\ UNCHANGED <<phase, shut, modtab>>
    /\ UNCHANGED svars

ExitPrintStats(tv) ==
    /\ proc = "running"
    /\ phase[tv] = "ready"
    /\ LET r == OutputStatsLogExitPrintStats(Mem, tv)
       IN  /\ Store(r)
           /\ proc' = ProcAfter(r.ret)
           /\ last' = [NoCall EXCEPT !.op = "OutputStatsLogExitPrintStats",
                         !.tv = tv, !.ret = r.ret, !.calls = r.calls]
    /\ UNCHANGED <<phase, shut, modtab>>
    /\ UNCHANGED svars

ThreadDeinit(tv) ==
    /\ proc = "running"
    /\ phase[tv] = "ready"
    /\ LET r == OutputStatsLogThreadDeinit(Mem, tv)
       IN  /\ Store(r)
           /\ proc' = ProcAfter(r.ret)
           /\ phase' = [phase EXCEPT ![tv] =
                          IF r.ret = TM_ECODE_OK THEN "done" ELSE @]
           /\ last' = [NoCall EXCEPT !.op = "OutputStatsLogThreadDeinit",
                         !.tv = tv, !.ret = r.ret, !.calls = r.calls]
    /\ UNCHANGED <<shut, modtab>>
    /\ UNCHANGED svars

Shutdown ==
    /\ proc = "running"
    /\ ~shut
    /\ \A t \in Threads : phase[t] # "ready"
    /\ Store([m |-> OutputStatsShutdown(Mem)])
    /\ shut' = TRUE
    /\ last' = [NoCall EXCEPT !.op = "OutputStatsShutdown"]
    /\ UNCHANGED <<phase, proc, modtab>>
    /\ UNCHANGED svars

LoggersRegistered ==
    /\ proc = "running"
    /\ last' = [NoCall EXCEPT !.op = "OutputStatsLoggersRegistered",
                  !.ret = IF OutputStatsLoggersRegistered(Mem) = 1
                          THEN "1" ELSE "0"]
    /\ UNCHANGED <<list, nodes, ctxs, data, octx, phase, proc, shut, modtab>>
    /\ UNCHANGED svars

\* A module leaves the module table while the engine runs: from then on the
\* names registered for it do not resolve any more.
ModuleLost ==
    /\ proc = "running"
    /\ ~shut
    /\ \E m \in modtab : modtab' = modtab \ {m}
    /\ last' = [NoCall EXCEPT !.op = "ModuleLost"]
    /\ UNCHANGED <<list, nodes, ctxs, data, octx, phase, proc, shut>>
    /\ UNCHANGED svars

Next ==
    \/ Register
    \/ \E tv \in Threads : ThreadInit(tv)
    \/ \E tv \in Threads : Log(tv)
    \/ \E tv \in Threads : ExitPrintStats(tv)
    \/ \E tv \in Threads : ThreadDeinit(tv)
    \/ Shutdown
    \/ LoggersRegistered
    \/ ModuleLost

Spec == Init /\ [][Next]_vars

(***************************************************************************)
(* The worker threads inside the syslog record functions.  AlertSyslogIPv4, *)
(* AlertSyslogIPv6 and AlertSyslogDecoderEvent have the same shape: return  *)
(* at once when the packet has no alerts, else lock fp_mutex, add           *)
(* alerts.cnt to file_ctx->alerts (a read and a write of the shared         *)
(* counter), write the lines of each alert, unlock, return.  Every thread   *)
(* was initialised from the same output context, so there is one counter    *)
(* and one mutex.                                                           *)
(***************************************************************************)
\* the call and the test of p->alerts.cnt (lines 236-237, 287-288, 340-341)
SyslogCall(t) ==
    /\ pc[t] = "idle"
    /\ ncalls[t] < MaxCalls
    /\ \E fn \in SyslogFuncs, p \in Packets :
          LET rf == RecordFunc(fn, p) IN
          /\ Callable(fn, p)
          /\ ncalls' = [ncalls EXCEPT ![t] = @ + 1]
          /\ total' = [total EXCEPT ![t] =
                          IF rf = "" THEN @ ELSE @ + p.alerts_cnt]
          /\ IF rf = "" \/ p.alerts_cnt = 0
             THEN \* return TM_ECODE_OK (lines 237, 288, 341, 391)
                  /\ pc' = [pc EXCEPT ![t] = "ret"]
                  /\ cur' = [cur EXCEPT ![t] =
                               [NoPacketCall EXCEPT !.entry = fn, !.fn = rf,
                                  !.p = p, !.cnt = p.alerts_cnt,
                                  !.ret = TM_ECODE_OK]]
             ELSE /\ pc' = [pc EXCEPT ![t] = "lock"]
                  /\ cur' = [cur EXCEPT ![t] =
                               [NoPacketCall EXCEPT !.entry = fn, !.fn = rf,
                                  !.p = p, !.cnt = p.alerts_cnt]]
    /\ UNCHANGED <<alerts, fp_mutex>>
    /\ UNCHANGED dvars

\* SCMutexLock that does not wait for the mutex
SCMutexLock_NoWait(t) ==
    /\ pc[t] = "lock"
    /\ fp_mutex' = t
    /\ pc' = [pc EXCEPT ![t] = "read"]
    /\ UNCHANGED <<alerts, cur, ncalls, total>>
    /\ UNCHANGED dvars

\* SCMutexLock(&ast->file_ctx->fp_mutex)
SCMutexLock(t) ==
    /\ pc[t] = "lock"
    /\ fp_mutex = ""
    /\ fp_mutex' = t
    /\ pc' = [pc EXCEPT ![t] = "read"]
    /\ UNCHANGED <<alerts, cur, ncalls, total>>
    /\ UNCHANGED dvars

\* ast->file_ctx->alerts += p->alerts.cnt: the read
AlertsRead(t) ==
    /\ pc[t] = "read"
    /\ cur' = [cur EXCEPT ![t].seen = alerts]
    /\ pc' = [pc EXCEPT ![t] = "write"]
    /\ UNCHANGED <<alerts, fp_mutex, ncalls, total>>
    /\ UNCHANGED dvars

\* ast->file_ctx->alerts += p->alerts.cnt: the write
AlertsWrite(t) ==
    /\ pc[t] = "write"
    /\ alerts' = cur[t].seen + cur[t].cnt
    /\ pc' = [pc EXCEPT ![t] = "log"]
    /\ cur' = [cur EXCEPT ![t].added = @ + (alerts' - alerts)]
    /\ UNCHANGED <<fp_mutex, ncalls, total>>
    /\ UNCHANGED dvars

\* one round of for (i = 0; i < p->alerts.cnt; i++): the syslog() calls of
\* alert i
SyslogAlert(t) ==
    /\ pc[t] = "log"
    /\ cur[t].i < cur[t].cnt
    /\ cur' = [cur EXCEPT ![t].i = @ + 1]
    /\ UNCHANGED <<alerts, fp_mutex, pc, ncalls, total>>
    /\ UNCHANGED dvars

\* SCMutexUnlock that leaves the mutex with the thread
SCMutexUnlock_Keep(t) ==
    /\ pc[t] = "log"
    /\ cur[t].i >= cur[t].cnt
    /\ pc' = [pc EXCEPT ![t] = "ret"]
    /\ cur' = [cur EXCEPT ![t].ret = TM_ECODE_OK]
    /\ UNCHANGED <<alerts, fp_mutex, ncalls, total>>
    /\ UNCHANGED dvars

\* the loop is over: SCMutexUnlock(&ast->file_ctx->fp_mutex);
\* return TM_ECODE_OK
SCMutexUnlock(t) ==
    /\ pc[t] = "log"
    /\ cur[t].i >= cur[t].cnt
    /\ fp_mutex' = ""
    /\ pc' = [pc EXCEPT ![t] = "ret"]
    /\ cur' = [cur EXCEPT ![t].ret = TM_ECODE_OK]
    /\ UNCHANGED <<alerts, ncalls, total>>
    /\ UNCHANGED dvars

\* the caller has the return value and goes on
SyslogReturn(t) ==
    /\ pc[t] = "ret"
    /\ pc' = [pc EXCEPT ![t] = "idle"]
    /\ cur' = [cur EXCEPT ![t] = NoPacketCall]
    /\ UNCHANGED <<alerts, fp_mutex, ncalls, total>>
    /\ UNCHANGED dvars

SyslogNext ==
    \/ \E t \in Threads : SyslogCall(t)
    \/ \E t \in Threads : SCMutexLock(t)
    \/ \E t \in Threads : AlertsRead(t)
    \/ \E t \in Threads : AlertsWrite(t)
    \/ \E t \in Threads : SyslogAlert(t)
    \/ \E t \in Threads : SCMutexUnlock(t)
    \/ \E t \in Threads : SyslogReturn(t)

SpecSyslog == Init /\ [][SyslogNext]_vars

\* The threads are scheduled fairly: a thread that can take its next step
\* inside a record function takes it, and a thread waiting in SCMutexLock
\* gets the mutex if it is free again and again.  Nothing obliges the
\* callers to make a call.
SyslogFairness ==
    \A t \in Threads :
        /\ SF_vars(SCMutexLock(t))
        /\ WF_vars(AlertsRead(t))
        /\ WF_vars(AlertsWrite(t))
        /\ WF_vars(SyslogAlert(t))
        /\ WF_vars(SCMutexUnlock(t))
        /\ WF_vars(SyslogReturn(t))

\* The calls of the fair specification: every packet goes through
\* AlertSyslog, and a packet carries decoder events exactly when it is
\* neither IPv4 nor IPv6, so each record function is reached by the packets
\* of its kind, with and without alerts.
SyslogFairNext ==
    \/ \E t \in Threads :
          /\ SyslogCall(t)
          /\ cur'[t].entry = "AlertSyslog"
          /\ (cur'[t].p.events_cnt > 0) <=> (cur'[t].p.ip = "none")
    \/ \E t \in Threads : SCMutexLock(t)
    \/ \E t \in Threads : AlertsRead(t)
    \/ \E t \in Threads : AlertsWrite(t)
    \/ \E t \in Threads : SyslogAlert(t)
    \/ \E t \in Threads : SCMutexUnlock(t)
    \/ \E t \in Threads : SyslogReturn(t)

SpecSyslogFair == Init /\ [][SyslogFairNext]_vars /\ SyslogFairness

(***************************************************************************)
(* Properties                                                               *)
(***************************************************************************)
RECURSIVE Chain(_, _)
\* the nodes reached from pointer p, in order
Chain(nds, p) == IF p = NULL THEN <<>> ELSE <<p>> \o Chain(nds, nds[p].next)

\* the store of thread t as the sequence of its nodes
StoreOf(t) == Chain(nodes, data[t].store)

Range(f) == {f[i] : i \in DOMAIN f}

\* the registration as OutputRegisterStatsLogger is to record it
Registration(name, LogFunc, output_ctx) ==
    [LogFunc |-> LogFunc, output_ctx |-> output_ctx, name |-> name,
     module_id |-> TmModuleGetIdByName(name)]

ThreadOps ==
    {"OutputStatsLogThreadInit", "OutputStatsLog",
     "OutputStatsLogExitPrintStats", "OutputStatsLogThreadDeinit"}

\* C1 (as claimed): a thread whose thread-init returned TM_ECODE_OK has a store
\* with as many entries as the registry, and entry i holds the context that
\* the thread-init of registry[i]'s module made on that thread (or none, when
\* the module makes none).
C1_PairingInvariant ==
    \A t \in Threads :
        phase[t] = "ready" =>
            /\ Len(StoreOf(t)) = Len(list)
            /\ \A i \in 1 .. Len(StoreOf(t)) :
                  LET c == nodes[StoreOf(t)[i]].thread_data IN
                  c # NULL => (ctxs[c].by = i /\ ctxs[c].tv = t)

\* C2 (as claimed): a dispatch on a thread that completed thread-init, with a
\* registry of N >= 1 entries, calls the N LogFuncs once each, in registry
\* order, each with the record, and returns.  (N = 0 is C3.)
C2_FanOutComplete ==
    (last.op = "OutputStatsLog" /\ Len(list) >= 1) =>
        /\ last.ret = TM_ECODE_OK
        /\ Len(last.calls) = Len(list)
        /\ \A i \in 1 .. Len(last.calls) :
              /\ last.calls[i].fn = list[i].LogFunc
              /\ last.calls[i].st = last.st

C4_InitFailureIsFatal ==
    (/\ last.op = "OutputStatsLogThreadInit"
     /\ \E i \in 1 .. Len(last.calls) : last.calls[i].st = TM_ECODE_FAILED)
        => last.ret # TM_ECODE_OK

\* C5: a register call whose name the module table does not hold returns -1
\* and leaves the registry as it was.
C5_UnknownNameRejected ==
    [][(/\ last'.op = "OutputRegisterStatsLogger"
        /\ TmModuleGetIdByName(last'.name) < 0)
          => (last'.ret = "-1" /\ list' = list)]_vars

C5_Witness ==
    /\ last.op = "OutputRegisterStatsLogger"
    /\ TmModuleGetIdByName(last.name) < 0
    /\ last.ret = "-1"
    /\ Len(list) >= 1

\* C6: a register call that returns 0 appends its registration at the end of
\* the registry and leaves the entries before it as they were, whether or not
\* the name is registered already.
C6_RegisterAppends ==
    [][(last'.op = "OutputRegisterStatsLogger" /\ last'.ret = "0") =>
          list' = Append(list, Registration(last'.name, last'.LogFunc,
                                            last'.output_ctx))]_vars

C6_Witness ==
    /\ last.op = "OutputRegisterStatsLogger"
    /\ last.ret = "0"
    /\ Len(list) = 2
    /\ list[1].name = list[2].name
    /\ list[1].output_ctx # list[2].output_ctx
    /\ list[1].output_ctx # NULL
    /\ list[2].output_ctx # NULL

\* C7: thread-init, dispatch, exit-report and thread-deinit of any thread leave
\* the registry as it was.
C7_RegistryImmutable ==
    [][last'.op \in ThreadOps => list' = list]_vars

C7_Witness ==
    /\ last.op = "OutputStatsLogThreadDeinit"
    /\ Len(last.calls) >= 1
    /\ Len(list) = MaxLoggers
    /\ \E t \in Threads : phase[t] = "ready" /\ data[t].store # NULL

\* C8: after thread-deinit returned for a thread, every store node that the
\* thread's thread-init allocated has been freed once, no more and no less.
C8_DeinitReleasesOnce ==
    \A t \in Threads :
        phase[t] = "done" =>
            \A n \in 1 .. Len(nodes) : nodes[n].tv = t => nodes[n].frees = 1

C8_Witness ==
    \E t \in Threads :
        /\ phase[t] = "done"
        /\ Len(StoreOf(t)) >= 2
        /\ \A n \in Range(StoreOf(t)) : nodes[n].frees = 1

\* C9 (as claimed): after thread-deinit returned for a thread, the thread's
\* per-thread data references no freed store node.
C9_NoDanglingStore ==
    \A t \in Threads :
        phase[t] = "done" =>
            \A n \in Range(StoreOf(t)) : nodes[n].frees = 0

\* C10: an operation on one thread passes to the callables only contexts made
\* on that thread and changes no per-thread data, store node or context of
\* another thread; the stores of two threads share no node and no context.
C10_ThreadIsolation ==
    [][\A t \in Threads :
          (last'.op \in ThreadOps /\ last'.tv = t) =>
             /\ \A i \in 1 .. Len(last'.calls) :
                   last'.calls[i].arg # NULL =>
                       ctxs'[last'.calls[i].arg].tv = t
             /\ \A u \in Threads \ {t} : data'[u] = data[u]
             /\ \A n \in 1 .. Len(nodes) :
                   nodes[n].tv # t => nodes'[n] = nodes[n]
             /\ \A c \in 1 .. Len(ctxs) :
                   ctxs[c].tv # t => ctxs'[c] = ctxs[c]
             /\ \A n \in Range(Chain(nodes', data'[t].store)) :
                   /\ nodes'[n].tv = t
                   /\ nodes'[n].thread_data # NULL =>
                         ctxs'[nodes'[n].thread_data].tv = t]_vars

C10_Witness ==
    /\ last.op = "OutputStatsLog"
    /\ last.ret = TM_ECODE_OK
    /\ Len(last.calls) = MaxLoggers
    /\ \A t \in Threads : phase[t] = "ready" /\ Len(StoreOf(t)) = MaxLoggers

\* C11 (as claimed): OutputStatsShutdown empties the registry and releases the
\* output context of every registration once.
C11_ShutdownReleasesContexts ==
    [][last'.op = "OutputStatsShutdown" =>
          /\ list' = <<>>
          /\ \A i \in 1 .. Len(list) :
                list[i].output_ctx # NULL => octx'[list[i].output_ctx] = 1]_vars

\* C12: a dispatch on a store whose length is not the registry's ends in
\* abort(); it does not return.
C12_MismatchAborts ==
    (last.op = "OutputStatsLog" /\ Len(StoreOf(last.tv)) # Len(list)) =>
        (last.ret = ABORTED /\ proc = ABORTED)

C12_Witness ==
    /\ last.op = "OutputStatsLog"
    /\ Len(list) = 2
    /\ Len(StoreOf(last.tv)) = 1
    /\ Len(last.calls) = 1
    /\ proc = ABORTED

\* C13 (as claimed): a thread-deinit or exit-report on a store whose length is
\* not the registry's does not return normally.
C13_MismatchIsFatal ==
    (/\ last.op \in {"OutputStatsLogThreadDeinit", "OutputStatsLogExitPrintStats"}
     /\ Len(StoreOf(last.tv)) # Len(list))
        => last.ret \in {ABORTED, EXITED}

\* C14: a thread-init on a registry with an entry whose name the module table
\* does not hold never returns TM_ECODE_OK and the thread never gets to use a
\* store: once the per-thread data is allocated the call ends the process,
\* by exit(EXIT_FAILURE) at that entry unless a BUG_ON came first.
C14_LostModuleExits ==
    [][\A t \in Threads :
          (/\ last'.op = "OutputStatsLogThreadInit"
           /\ last'.tv = t
           /\ \E i \in 1 .. Len(list) : TmModuleGetByName(list[i].name).name = "")
             => /\ last'.ret # TM_ECODE_OK
                /\ phase'[t] # "ready"
                /\ data'[t].set => (/\ last'.ret \in {EXITED, ABORTED}
                                    /\ proc' = last'.ret)]_vars

C14_Witness ==
    /\ last.op = "OutputStatsLogThreadInit"
    /\ last.ret = EXITED
    /\ proc = EXITED
    /\ Len(list) = 2
    /\ Len(last.calls) = 1
    /\ data[last.tv].set

\* C15: an exit-report leaves every store node, every context and every
\* thread's per-thread data as they were; it frees nothing.
C15_ExitReportReadOnly ==
    [][last'.op = "OutputStatsLogExitPrintStats" =>
          <<nodes, ctxs, data, list, octx>>' = <<nodes, ctxs, data, list, octx>>]_vars

C15_Witness ==
    /\ last.op = "OutputStatsLogExitPrintStats"
    /\ Len(last.calls) = 2
    /\ Len(StoreOf(last.tv)) = 2
    /\ \A n \in Range(StoreOf(last.tv)) : nodes[n].frees = 0

\* the answer OutputStatsLoggersRegistered would give now
Registered == OutputStatsLoggersRegistered(Mem)

\* C16: the query answers 1 exactly when the registry holds an entry; its
\* answer is 0 at the start, 1 after a register that returned 0, 0 after
\* shutdown, and a register that returned -1 leaves it as it was.
C16_QueryTracksRegistry ==
    [][/\ last'.op = "OutputStatsLoggersRegistered" =>
             /\ last'.ret = (IF Len(list) >= 1 THEN "1" ELSE "0")
             /\ list' = list
       /\ (last'.op = "OutputRegisterStatsLogger" /\ last'.ret = "0") =>
             Registered' = 1
       /\ (last'.op = "OutputRegisterStatsLogger" /\ last'.ret = "-1") =>
             Registered' = Registered
       /\ last'.op = "OutputStatsShutdown" => Registered' = 0
       /\ (Len(list) = 0 /\ ~(last'.op = "OutputRegisterStatsLogger")) =>
             Registered' = 0]_vars

C16_Witness ==
    /\ last.op = "OutputStatsLoggersRegistered"
    /\ last.ret = "0"
    /\ shut
    /\ \E t \in Threads : phase[t] = "done" /\ data[t].store # NULL

\* C17 (as claimed): every LogFunc call of a dispatch gets, at position i, the
\* context that registration i's module made on the dispatching thread.
C17_ContextOwnership ==
    last.op = "OutputStatsLog" =>
        \A i \in 1 .. Len(last.calls) :
            LET c == last.calls[i].arg IN
            /\ c # NULL
            /\ ctxs[c].by = i
            /\ ctxs[c].tv = last.tv

\* C18 (as claimed): when thread-deinit has returned, every context a module's
\* ThreadInit handed out on that thread has been passed once, to the
\* ThreadDeinit of the module of the registration that made it.
C18_DeinitOwnModule ==
    (last.op = "OutputStatsLogThreadDeinit" /\ last.ret = TM_ECODE_OK) =>
        \A c \in 1 .. Len(ctxs) :
            (ctxs[c].tv = last.tv /\ ctxs[c].file_ctx # NULL) =>
                /\ Cardinality({i \in 1 .. Len(last.calls) :
                                   last.calls[i].arg = c}) = 1
                /\ \A i \in 1 .. Len(last.calls) :
                      last.calls[i].arg = c =>
                          last.calls[i].fn =
                              TmModuleGetByName(list[ctxs[c].by].name).ThreadDeinit

RECURSIVE ExitCallers(_)
\* the registry positions up to n whose module has a ThreadExitPrintStats
ExitCallers(n) ==
    IF n = 0 THEN <<>>
    ELSE IF TmModuleGetByName(list[n].name).ThreadExitPrintStats # ""
         THEN Append(ExitCallers(n - 1), n)
         ELSE ExitCallers(n - 1)

\* C19 (as claimed): an exit-report that returned has called, in registry
\* order and at most once each, the ThreadExitPrintStats of registrations
\* whose module has one, each with the context that this registration made on
\* the thread.
C19_ExitReportPairing ==
    (last.op = "OutputStatsLogExitPrintStats" /\ last.ret # EXITED) =>
        /\ Len(last.calls) <= Len(ExitCallers(Len(list)))
        /\ \A j \in 1 .. Len(last.calls) :
              LET i == ExitCallers(Len(list))[j]
                  c == last.calls[j].arg
              IN  /\ last.calls[j].fn =
                        TmModuleGetByName(list[i].name).ThreadExitPrintStats
                  /\ c # NULL => (ctxs[c].by = i /\ ctxs[c].tv = last.tv)

RECURSIVE SumOver(_, _)
\* the sum of f[x] over the x in S
SumOver(S, f) ==
    IF S = {} THEN 0
    ELSE LET x == CHOOSE y \in S : TRUE IN f[x] + SumOver(S \ {x}, f)

\* C20: whenever no thread is inside a record function, the shared counter is
\* its initial value 0 plus alerts.cnt of every packet a record function was
\* called with, whatever the interleaving of the threads was.
C20_NoLostUpdate ==
    (\A t \in Threads : pc[t] = "idle") => alerts = SumOver(Threads, total)

C20_Witness ==
    /\ \A t \in Threads : pc[t] = "idle" /\ ncalls[t] = MaxCalls
    /\ \A t \in Threads : total[t] > MaxAlerts
    /\ alerts = SumOver(Threads, total)

\* the thread is between SCMutexLock and SCMutexUnlock of a record function
Holding(t) == pc[t] \in {"read", "write", "log"}

\* no thread is inside a record function
NoneInside == \A t \in Threads : pc[t] \in {"idle", "ret"}

\* C21: a thread holds fp_mutex exactly between the SCMutexLock and the
\* SCMutexUnlock of its call, so a call that took the mutex has released it
\* when it returns; a call for a packet with alerts.cnt == 0 returns at once
\* and leaves the mutex alone; the mutex is free whenever no thread is inside
\* a record function; and, the threads being scheduled fairly, a thread
\* waiting in SCMutexLock gets the mutex.
C21_MutexReleased ==
    /\ [](\A t \in Threads : (fp_mutex = t) <=> Holding(t))
    /\ [](\A t \in Threads : pc[t] = "ret" => cur[t].ret = TM_ECODE_OK)
    /\ [](NoneInside => fp_mutex = "")
    /\ [][\A t \in Threads :
             (pc[t] = "idle" /\ pc'[t] # "idle" /\ cur'[t].p.alerts_cnt = 0)
                => (pc'[t] = "ret" /\ fp_mutex' = fp_mutex)]_vars
    /\ \A t \in Threads : (pc[t] = "lock") ~> (fp_mutex = t)

\* a thread waits in SCMutexLock while the other thread, which has returned
\* from an earlier call, holds the mutex in its last call
C21_Witness ==
    \E t, u \in Threads :
        /\ pc[t] = "lock"
        /\ fp_mutex = u
        /\ u # t
        /\ ncalls[u] = MaxCalls

\* C22: when a call of AlertSyslog has returned, the packet went to the
\* IPv4 function if it is IPv4, else to the IPv6 function if it is IPv6, else
\* to the decoder-event function if events.cnt > 0, else to none; the call
\* added alerts.cnt to the shared counter when a function took the packet and
\* nothing when none did; and it returned TM_ECODE_OK.
C22_RoutingByKind ==
    \A t \in Threads :
        (pc[t] = "ret" /\ cur[t].entry = "AlertSyslog") =>
            LET p == cur[t].p IN
            /\ p.ip = "v4" => cur[t].fn = "AlertSyslogIPv4"
            /\ p.ip = "v6" => cur[t].fn = "AlertSyslogIPv6"
            /\ (p.ip = "none" /\ p.events_cnt > 0)
                  => cur[t].fn = "AlertSyslogDecoderEvent"
            /\ (p.ip = "none" /\ p.events_cnt = 0) => cur[t].fn = ""
            /\ cur[t].fn # "" => cur[t].added = p.alerts_cnt
            /\ cur[t].fn = "" => cur[t].added = 0
            /\ cur[t].ret = TM_ECODE_OK

\* both threads have returned from AlertSyslog: one gave an IPv4 packet that
\* also carries events to the IPv4 function, the other had a packet with
\* alerts that is of no kind, and the counter shows the first packet only
C22_Witness ==
    \E t, u \in Threads :
        /\ pc[t] = "ret" /\ cur[t].entry = "AlertSyslog"
        /\ cur[t].p.ip = "v4" /\ cur[t].p.events_cnt > 0
        /\ cur[t].p.alerts_cnt = MaxAlerts /\ cur[t].added = MaxAlerts
        /\ pc[u] = "ret" /\ cur[u].entry = "AlertSyslog"
        /\ cur[u].fn = "" /\ cur[u].p.alerts_cnt > 0 /\ cur[u].added = 0
        /\ ncalls[t] = 1 /\ ncalls[u] = 1
        /\ alerts = MaxAlerts

\* the contexts allocated, and not freed again, in the step
KeptCtxs == {k \in (Len(ctxs) + 1) .. Len(ctxs') : ctxs'[k].frees = 0}

\* call c of AlertSyslogThreadInit got no output context: it failed and left
\* *data (NULL before the call) as it was
NoContextFails(c) ==
    c.initdata = NULL => (c.st = TM_ECODE_FAILED /\ c.arg = NULL)

\* call c of AlertSyslogThreadInit succeeded: *data is a context made in this
\* step, on the calling thread, whose file_ctx is the data of the output
\* context given
ContextMade(c) ==
    /\ c.st = TM_ECODE_OK
    /\ c.arg \in KeptCtxs
    /\ ctxs'[c.arg].tv = last'.tv
    /\ ctxs'[c.arg].file_ctx = OutputCtxHeap[c.initdata].data

\* every context a step keeps was handed back by a successful call of the step
NothingElseKept ==
    \A k \in KeptCtxs :
        \E j \in 1 .. Len(last'.calls) :
            /\ last'.calls[j].arg = k
            /\ last'.calls[j].st = TM_ECODE_OK
            /\ last'.calls[j].initdata # NULL

\* the live thread contexts made from one output context have one file_ctx:
\* one shared counter and one mutex
SameSharedData ==
    \A c1, c2 \in 1 .. Len(ctxs) :
        (/\ ctxs[c1].frees = 0 /\ ctxs[c2].frees = 0
         /\ ctxs[c1].by <= Len(list) /\ ctxs[c2].by <= Len(list)
         /\ list[ctxs[c1].by].output_ctx = list[ctxs[c2].by].output_ctx)
            => ctxs[c1].file_ctx = ctxs[c2].file_ctx

\* C23 (as claimed): AlertSyslogThreadInit without an output context returns
\* TM_ECODE_FAILED, keeps no context and leaves *data as it was; with an
\* output context it returns TM_ECODE_OK and *data is a new context whose
\* file_ctx is that output context's data.
C23_ThreadInitByContext ==
    [][last'.op = "OutputStatsLogThreadInit" =>
          /\ NothingElseKept
          /\ \A j \in 1 .. Len(last'.calls) :
                LET c == last'.calls[j] IN
                c.fn = "AlertSyslogThreadInit" =>
                    /\ NoContextFails(c)
                    /\ c.initdata # NULL => ContextMade(c)]_vars

\* C23 (amended): AlertSyslogThreadInit without an output context returns
\* TM_ECODE_FAILED, keeps no context and leaves *data as it was; with an
\* output context it either returns TM_ECODE_OK, *data being a new context
\* whose file_ctx is that output context's data, or, its SCMalloc having
\* failed, returns TM_ECODE_FAILED, keeps nothing and leaves *data as it was;
\* so the live contexts made from one output context share one file_ctx.
C23_ThreadInitByContextOrFails ==
    /\ [][last'.op = "OutputStatsLogThreadInit" =>
            /\ NothingElseKept
            /\ \A j \in 1 .. Len(last'.calls) :
                  LET c == last'.calls[j] IN
                  c.fn = "AlertSyslogThreadInit" =>
                      /\ NoContextFails(c)
                      /\ c.initdata # NULL =>
                            \/ ContextMade(c)
                            \/ c.st = TM_ECODE_FAILED /\ c.arg = NULL]_vars
    /\ []SameSharedData

\* thread-init on a thread made two calls, one without output context and one
\* with an output context whose allocation failed, both failing and leaving
\* retptr NULL, while the other thread has a live context made from that same
\* output context
C23_Witness ==
    /\ last.op = "OutputStatsLogThreadInit"
    /\ Len(last.calls) = 2
    /\ last.calls[1].initdata = NULL
    /\ last.calls[1].st = TM_ECODE_FAILED
    /\ last.calls[2].initdata # NULL
    /\ last.calls[2].st = TM_ECODE_FAILED
    /\ last.calls[2].arg = NULL
    /\ \E c \in 1 .. Len(ctxs) :
          /\ ctxs[c].frees = 0
          /\ ctxs[c].tv # last.tv
          /\ ctxs[c].file_ctx = OutputCtxHeap[last.calls[2].initdata].data
    /\ \E c \in 1 .. Len(ctxs) :
          ctxs[c].tv = last.tv /\ ctxs[c].file_ctx = NULL /\ ctxs[c].frees = 1

====
